---- MODULE Spec2Model ----
(***************************************************************************)
(* Model of spark_rapids_ml/regression.py: the LinearRegression estimator  *)
(* (parameter mapping, single-column pre-check, per-worker fit function    *)
(* with its three cuML backends) and the lazily cached CPU models of       *)
(* LinearRegressionModel and RandomForestRegressionModel.                  *)
(*                                                                         *)
(* Floating point hyperparameters are kept as integers in fixed units:     *)
(* alpha and tol in units of 1e-4, l1_ratio in units of 0.15, coefficients *)
(* and intercepts in units of the float64 spacing.  Python's None is the   *)
(* string "None".                                                          *)
(***************************************************************************)
EXTENDS Integers, Sequences, FiniteSets, TLC

\* ---------------------------------------------------------------- bounds
NumWorkers == 2
MaxCalls == 2
MaxAlpha == 2
MaxL1 == 1
MaxPartRows == 2
NumCallers == 2
MaxOps == 3
MaxTrips == 2
MaxConstructs == 2
MaxTranslations == 2

Workers == 1..NumWorkers
AlphaVals == 0..MaxAlpha
L1Vals == 0..MaxL1
\* feature column counts: one column, more than one
Dimensions == {1, 2}

\* keys that none of the three backends knows
ExtraKeys == {"bogus"}
\* values a user may give to setLoss
LossInputs == {"squaredError", "squared_loss", "huber", "absolute"}
\* values a user may give to the solver param
SolverInputs == {"auto", "normal", "l-bfgs", "eig", "cholesky", ""}
\* exceptions the native backend may raise: in its constructor, in its fit
CtorExceptions == {"MemoryError"}
FitExceptions == {"ValueError"}
BackendExceptions == CtorExceptions \cup FitExceptions

\* ------------------------------------------------ LinearRegressionClass
_param_mapping ==
    [ aggregationDepth |-> "",
      elasticNetParam  |-> "l1_ratio",
      epsilon          |-> "",
      fitIntercept     |-> "fit_intercept",
      loss             |-> "loss",
      maxBlockSizeInMB |-> "",
      maxIter          |-> "max_iter",
      regParam         |-> "alpha",
      solver           |-> "solver",
      standardization  |-> "normalize",
      tol              |-> "tol",
      weightCol        |-> "None" ]

\* {...}.get(x, None) of the "loss" entry of _param_value_mapping
loss_value_mapping(x) ==
    CASE x = "squaredError" -> "squared_loss"
      [] x = "huber"        -> "None"
      [] x = "squared_loss" -> "squared_loss"
      [] OTHER              -> "None"

\* {...}.get(x, None) of the "solver" entry of _param_value_mapping
solver_value_mappingNormalKept(x) ==
    CASE x = "auto"   -> "eig"
      [] x = "normal" -> "normal"
      [] x = "l-bfgs" -> "None"
      [] x = "eig"    -> "eig"
      [] OTHER        -> "None"
solver_value_mapping(x) ==
    CASE x = "auto"   -> "eig"
      [] x = "normal" -> "eig"
      [] x = "l-bfgs" -> "None"
      [] x = "eig"    -> "eig"
      [] OTHER        -> "None"

_get_cuml_params_default ==
    [ algorithm     |-> "eig",
      fit_intercept |-> TRUE,
      normalize     |-> FALSE,
      verbose       |-> FALSE,
      alpha         |-> 1,
      solver        |-> "eig",
      loss          |-> "squared_loss",
      l1_ratio      |-> 1,
      max_iter      |-> 1000,
      tol           |-> 10,
      shuffle       |-> TRUE ]

\* ----------------------------------------------------------------- state
VARIABLES
    phase,        \* estimator: "created", "failed" (fit raised), "running"
    cuml_params,  \* estimator's hyperparameter mapping (self.cuml_params)
    dimension,    \* number of feature columns of the training data
    part_rows,    \* row count of the first partition of every worker
    error,        \* exception raised by fit() on the driver, or "None"
    params,       \* params[w]: the params mapping handed to worker w
    calls,        \* calls[w]: invocations of the fit function on params[w]
    ctor_log,     \* ctor_log[w]: backend constructor calls (class, kwargs)
    fit_log,      \* fit_log[w]: backend fit calls (m, n, parts, rank)
    backend_exc,  \* backend_exc[w]: what the backend raised in the last call
    outcome       \* outcome[w]: how the last fit function call ended

fitVars == << phase, cuml_params, dimension, part_rows, error, params, calls,
              ctor_log, fit_log, backend_exc, outcome >>

VARIABLES
    model,        \* model[e]: stored state and Spark params of model entity e
    heap,         \* CPU model objects built so far; an object id is an index
    cache,        \* cache[e]: _lr_ml_model / _rf_spark_model (0 is None)
    uid_count,    \* number of uids handed out by the JVM
    builds,       \* builds[e]: CPU model objects constructed for entity e
    ops,          \* number of calls started on the model entities
    pc,           \* pc[c]: position of caller c inside cpu()
    local,        \* local[c]: the object caller c has constructed (0: none)
    returned      \* returned[c]: what the last call of caller c returned

cpuVars == << model, heap, cache, uid_count, builds, ops, pc, local, returned >>

VARIABLES
    saved,          \* what save() wrote under the model path (<< >>: nothing)
    loaded,         \* the model load() returned (<< >>: none yet)
    trips,          \* number of load() calls
    transform_func, \* what _get_cuml_transform_func returned (<< >>: not called)
    constructed,    \* the inference objects _construct_lr has built
    predicted,      \* what the last _predict call returned (<< >>: none yet)
    translated      \* applications of the value-translation functions

otherVars == << saved, loaded, trips, transform_func, constructed, predicted,
                translated >>

vars == << fitVars, cpuVars, otherVars >>

\* ------------------------------------------------- dictionaries (Dict)
\* {k: v for k, v in d.items() if k in supported}
FilterUnsupportedKept(d, supported) == d
FilterSupported(d, supported) ==
    [k \in (DOMAIN d) \cap supported |-> d[k]]

\* A local variable holding a dict is a reference: obj says whether it still
\* names the caller's object or a fresh one, val is the object's content.
CallerRef(d) == [obj |-> "caller", val |-> d]

\* init_parameters.copy()
DictCopyAliased(ref) == ref
DictCopy(ref) == [obj |-> "fresh", val |-> ref.val]

\* if "alpha" in init_parameters.keys(): init_parameters["alpha"] *= float(m)
ScaleAlpha(ref, m) ==
    IF "alpha" \in DOMAIN ref.val
    THEN [ref EXCEPT !.val = [@ EXCEPT !["alpha"] = @ * m]]
    ELSE ref

\* ------------------------------------------------- PartitionDescriptor
\* the partitions of worker w: one of part_rows rows and one of w rows
PartSizesOf(w, r) == << r, w >>

\* the (rank, size) pairs of all workers, in rank order, as the barrier's
\* allGather delivers them; gathered[v] is the partition size list of worker v
RECURSIVE RankSizes(_, _)
RankSizes(w, gathered) ==
    IF w > NumWorkers THEN << >>
    ELSE [i \in 1..Len(gathered[w]) |-> << w - 1, gathered[w][i] >>]
         \o RankSizes(w + 1, gathered)

\* sum of the sizes in a list of (rank, size) pairs
RECURSIVE TotalRows(_)
TotalRows(prs) == IF prs = << >> THEN 0 ELSE Head(prs)[2] + TotalRows(Tail(prs))

\* PartitionDescriptor.build(part_sizes, num_cols) on worker w
PartitionDescriptorBuild(w, part_sizes, num_cols, gathered) ==
    [ m |-> TotalRows(RankSizes(1, [gathered EXCEPT ![w] = part_sizes])),
      n |-> num_cols,
      rank |-> w - 1,
      parts_rank_size |-> RankSizes(1, [gathered EXCEPT ![w] = part_sizes]) ]

\* rows held by the worker of rank pdesc.rank
OwnRows(pdesc) ==
    TotalRows(SelectSeq(pdesc.parts_rank_size, LAMBDA pr : pr[1] = pdesc.rank))

\* ------------------------------------------------------ solver selector
SelectBackendRidgeFirst(init_parameters) ==
    IF init_parameters["l1_ratio"] = 0 THEN "RidgeMG"
    ELSE IF init_parameters["alpha"] = 0 THEN "LinearRegressionMG"
    ELSE "CDMG"
SelectBackend(init_parameters) ==
    IF init_parameters["alpha"] = 0 THEN "LinearRegressionMG"
    ELSE IF init_parameters["l1_ratio"] = 0 THEN "RidgeMG"
    ELSE "CDMG"

supported_params(cls) ==
    CASE cls = "LinearRegressionMG" ->
           {"algorithm", "fit_intercept", "normalize", "verbose"}
      [] cls = "RidgeMG" ->
           {"alpha", "solver", "fit_intercept", "normalize", "verbose"}
      [] cls = "CDMG" ->
           {"loss", "alpha", "l1_ratio", "fit_intercept", "max_iter",
            "normalize", "tol", "shuffle", "verbose"}

\* the rescaling of the ridge branch: copy, then scale the copy
RidgeRescaleOwnRows(ref, pdesc) == ScaleAlpha(DictCopy(ref), OwnRows(pdesc))
RidgeRescale(ref, pdesc) == ScaleAlpha(DictCopy(ref), pdesc.m)

\* the coordinate-descent branch leaves init_parameters alone
CDParamsRescaled(ref, pdesc) == ScaleAlpha(DictCopy(ref), pdesc.m)
CDParams(ref, pdesc) == ref

\* init_parameters = {k: v ... if k in supported_params}: a new dict is bound
\* to the local name, the object it named before is left as it was
FilterParamsInPlace(ref, supported) ==
    [obj |-> ref.obj, val |-> FilterSupported(ref.val, supported)]
FilterParams(ref, supported) ==
    [obj |-> "fresh", val |-> FilterSupported(ref.val, supported)]

\* the first part of _linear_regression_fit, up to the constructor call:
\* the backend class, the keywords and the caller's mapping afterwards
PrepareBackend(p, pdesc) ==
    LET ref0 == CallerRef(p.cuml_init)
        cls  == SelectBackend(ref0.val)
        ref1 == CASE cls = "LinearRegressionMG" -> ref0
                  [] cls = "RidgeMG" -> RidgeRescale(ref0, pdesc)
                  [] cls = "CDMG" -> CDParams(ref0, pdesc)
        ref2 == FilterParams(ref1, supported_params(cls))
    IN  [ cls |-> cls,
          kwargs |-> ref2.val,
          cuml_init |-> IF ref2.obj = "caller" THEN ref2.val
                        ELSE IF ref1.obj = "caller" THEN ref1.val
                        ELSE p.cuml_init ]

\* ------------------------------------------------------ native backend
\* keywords the backend constructors take besides handle and output_type
BackendSignature(cls) ==
    CASE cls = "LinearRegressionMG" ->
           {"algorithm", "fit_intercept", "normalize", "verbose"}
      [] cls = "RidgeMG" ->
           {"alpha", "solver", "fit_intercept", "normalize", "verbose"}
      [] cls = "CDMG" ->
           {"loss", "alpha", "l1_ratio", "fit_intercept", "max_iter",
            "normalize", "tol", "shuffle", "verbose"}

\* CumlLinearRegression(handle=..., output_type="cudf", **init_parameters):
\* an unexpected keyword is a TypeError, otherwise the backend decides
BackendCtorOutcome(cls, kwargs, native) ==
    IF ~((DOMAIN kwargs) \subseteq BackendSignature(cls)) THEN "TypeError"
    ELSE native

\* the attributes of the backend object after a successful fit
FittedBackend(pdesc) ==
    [ coef_ |-> [i \in 1..pdesc.n |-> 4],
      intercept_ |-> 36,
      dtype |-> "float32",
      n_cols |-> pdesc.n ]

\* the record _linear_regression_fit returns
FitResultRecord(lr) ==
    [ coef_ |-> << lr.coef_ >>,
      intercept_ |-> lr.intercept_,
      dtype |-> lr.dtype,
      n_cols |-> lr.n_cols ]

\* no try/except around the backend calls: what the backend raises is what
\* the fit function raises
TranslateException(e) == "RuntimeError"
PropagateException(e) == e

NoOutcome == [status |-> "none", exc |-> "None", result |-> << >>]

\* ------------------------------------------------------------ estimator
\* value stored for a Spark param: its translated value where
\* _param_value_mapping has an entry, the value itself otherwise
_get_cuml_mapping_value(spark_param, value) ==
    CASE spark_param = "loss" -> loss_value_mapping(value)
      [] spark_param = "solver" -> solver_value_mapping(value)
      [] OTHER -> value

\* set_params(<spark_param>=value): the translated value is stored under the
\* cuML name; an unsupported value is stored as None
set_params(cp, spark_param, value) ==
    [cp EXCEPT ![_param_mapping[spark_param]] =
                   _get_cuml_mapping_value(spark_param, value)]

\* the condition under which _pre_process_data raises RuntimeError
PreProcessRaisesAlphaOnly(dim, cp) ==
    dim = 1 /\ cp["alpha"] = 0
PreProcessRaisesBoth(dim, cp) ==
    dim = 1 /\ (cp["alpha"] = 0 /\ cp["l1_ratio"] = 0)
PreProcessRaises(dim, cp) ==
    dim = 1 /\ (cp["alpha"] = 0 \/ cp["l1_ratio"] = 0)

\* the params mapping the driver hands to worker w
WorkerParams(w, cp, dim, r) ==
    [ cuml_init |-> cp,
      part_sizes |-> PartSizesOf(w, r),
      num_cols |-> dim,
      handle |-> "handle" ]

\* ------------------------------------------------ fit: initial state
Extras == {[k \in S |-> "x"] : S \in SUBSET ExtraKeys}

FitInit ==
    /\ phase = "created"
    /\ cuml_params \in {e @@ _get_cuml_params_default : e \in Extras}
    /\ dimension \in Dimensions
    /\ part_rows \in 1..MaxPartRows
    /\ error = "None"
    /\ params = << >>
    /\ calls = [w \in Workers |-> 0]
    /\ ctor_log = [w \in Workers |-> << >>]
    /\ fit_log = [w \in Workers |-> << >>]
    /\ backend_exc = [w \in Workers |-> "None"]
    /\ outcome = [w \in Workers |-> NoOutcome]

\* ------------------------------------------------------- fit: actions
setRegParam ==
    /\ phase = "created"
    /\ \E value \in AlphaVals :
         cuml_params' = set_params(cuml_params, "regParam", value)
    /\ UNCHANGED << phase, dimension, part_rows, error, params, calls,
                    ctor_log, fit_log, backend_exc, outcome, cpuVars, otherVars >>

setElasticNetParam ==
    /\ phase = "created"
    /\ \E value \in L1Vals :
         cuml_params' = set_params(cuml_params, "elasticNetParam", value)
    /\ UNCHANGED << phase, dimension, part_rows, error, params, calls,
                    ctor_log, fit_log, backend_exc, outcome, cpuVars, otherVars >>

setLoss ==
    /\ phase = "created"
    /\ \E value \in LossInputs :
         cuml_params' = set_params(cuml_params, "loss", value)
    /\ UNCHANGED << phase, dimension, part_rows, error, params, calls,
                    ctor_log, fit_log, backend_exc, outcome, cpuVars, otherVars >>

\* fit(dataset) on the driver: _pre_process_data, then the fit function is
\* shipped to the workers
fit ==
    /\ phase = "created"
    /\ IF PreProcessRaises(dimension, cuml_params)
       THEN /\ phase' = "failed"
            /\ error' = "RuntimeError"
            /\ UNCHANGED params
       ELSE /\ phase' = "running"
            /\ params' = [w \in Workers |->
                             WorkerParams(w, cuml_params, dimension, part_rows)]
            /\ UNCHANGED error
    /\ UNCHANGED << cuml_params, dimension, part_rows, calls, ctor_log,
                    fit_log, backend_exc, outcome, cpuVars, otherVars >>

\* fit function calls made so far by workers 1..n
RECURSIVE TotalCalls(_, _)
TotalCalls(c, n) == IF n = 0 THEN 0 ELSE c[n] + TotalCalls(c, n - 1)

\* one call of _linear_regression_fit(dfs, params[w]) on worker w; ctorNative
\* and fitNative are what the native backend does ("ok" or an exception)
_linear_regression_fit(w) ==
    /\ phase = "running"
    /\ TotalCalls(calls, NumWorkers) < MaxCalls
    /\ \E ctorNative \in {"ok"} \cup CtorExceptions,
          fitNative \in {"ok"} \cup FitExceptions :
         LET pdesc == PartitionDescriptorBuild(w, params[w].part_sizes,
                          params[w].num_cols,
                          [v \in Workers |-> params[v].part_sizes])
             prep == PrepareBackend(params[w], pdesc)
             ctorOut == BackendCtorOutcome(prep.cls, prep.kwargs, ctorNative)
             raisedBy == IF ctorOut # "ok" THEN ctorOut
                         ELSE IF fitNative # "ok" THEN fitNative ELSE "None"
         IN  /\ params' = [params EXCEPT ![w].cuml_init = prep.cuml_init]
             /\ calls' = [calls EXCEPT ![w] = @ + 1]
             /\ ctor_log' = [ctor_log EXCEPT ![w] =
                    Append(@, [cls |-> prep.cls, kwargs |-> prep.kwargs])]
             /\ fit_log' = [fit_log EXCEPT ![w] =
                    IF ctorOut = "ok"
                    THEN Append(@, [m |-> pdesc.m, n |-> pdesc.n,
                                    parts |-> pdesc.parts_rank_size,
                                    rank |-> pdesc.rank])
                    ELSE @]
             /\ backend_exc' = [backend_exc EXCEPT ![w] = raisedBy]
             /\ outcome' = [outcome EXCEPT ![w] =
                    IF raisedBy # "None"
                    THEN [status |-> "raised",
                          exc |-> PropagateException(raisedBy),
                          result |-> << >>]
                    ELSE [status |-> "returned",
                          exc |-> "None",
                          result |-> << FitResultRecord(FittedBackend(pdesc)) >>]]
    /\ UNCHANGED << phase, cuml_params, dimension, part_rows, error, cpuVars, otherVars >>

\* ------------------------------------------------------- model entities
Entities == {"lr", "rf"}
Callers == 1..NumCallers

\* LinearRegressionModel.scale
scale == 1

\* Spark params of a freshly constructed pyspark model
DefaultSparkParams == [predictionCol |-> "prediction"]
SparkParamChoices == {DefaultSparkParams, [predictionCol |-> "newPrediction"]}

\* LinearRegressionModel(coef_, intercept_, n_cols, dtype)
\* super().__init__(...) keeps the construction arguments for save()
LinearRegressionModelInterceptNotKept(coef_, intercept_, n_cols, dtype, sp) ==
    [ coef_ |-> coef_, intercept_ |-> intercept_, n_cols |-> n_cols,
      dtype |-> dtype, spark_params |-> sp,
      model_attributes |-> [ dtype |-> dtype, n_cols |-> n_cols,
                             coef_ |-> coef_, intercept_ |-> 0 ] ]
LinearRegressionModel(coef_, intercept_, n_cols, dtype, sp) ==
    [ coef_ |-> coef_, intercept_ |-> intercept_, n_cols |-> n_cols,
      dtype |-> dtype, spark_params |-> sp,
      model_attributes |-> [ dtype |-> dtype, n_cols |-> n_cols,
                             coef_ |-> coef_, intercept_ |-> intercept_ ] ]

\* RandomForestRegressionModel(n_cols, dtype, treelite_model, model_json)
RandomForestRegressionModel(n_cols, dtype, treelite_model, model_json, sp) ==
    [ n_cols |-> n_cols, dtype |-> dtype, treelite_model |-> treelite_model,
      model_json |-> model_json, spark_params |-> sp ]

\* java_uid(sc, prefix): a uid no earlier call returned
java_uid(count) == count + 1

\* the pyspark model wrapped around the JVM model cpu() constructs
NewCpuModelNoIntercept(e, uid, m) ==
    IF e = "lr"
    THEN [ cls |-> "SparkLinearRegressionModel",
           uid |-> uid,
           coefficients |-> m.coef_,
           intercept |-> 0,
           scale |-> scale,
           params |-> DefaultSparkParams ]
    ELSE [ cls |-> "SparkRandomForestRegressionModel",
           uid |-> uid,
           trees |-> m.model_json,
           numFeatures |-> m.n_cols,
           params |-> DefaultSparkParams ]
NewCpuModel(e, uid, m) ==
    IF e = "lr"
    THEN [ cls |-> "SparkLinearRegressionModel",
           uid |-> uid,
           coefficients |-> m.coef_,
           intercept |-> m.intercept_,
           scale |-> scale,
           params |-> DefaultSparkParams ]
    ELSE [ cls |-> "SparkRandomForestRegressionModel",
           uid |-> uid,
           trees |-> m.model_json,
           numFeatures |-> m.n_cols,
           params |-> DefaultSparkParams ]

\* self._copyValues(to)
_copyValues(m, to) == [to EXCEPT !.params = m.spark_params]

\* if self._lr_ml_model is None / if self._rf_spark_model is None
CacheIsNoneAlways(ref) == TRUE
CacheIsNone(ref) == ref = 0

RECURSIVE Dot(_, _)
Dot(a, b) == IF a = << >> THEN 0 ELSE Head(a) * Head(b) + Dot(Tail(a), Tail(b))

\* the CPU model's predict(value) and evaluate(dataset)
SparkPredict(obj, value) == Dot(obj.coefficients, value) + obj.intercept
SparkEvaluate(obj, dataset) ==
    [ summary_of |-> obj.uid,
      predictions |-> [i \in 1..Len(dataset) |-> SparkPredict(obj, dataset[i])] ]

\* feature vectors with n_cols entries, and datasets of such rows
Values(n) == [1..n -> {0, 2}]
Datasets(n) == {<< v >> : v \in Values(n)}

NoReturn == << >>

FitQuiet ==
    /\ phase = "created"
    /\ cuml_params = _get_cuml_params_default
    /\ dimension = 2
    /\ part_rows = 1
    /\ error = "None"
    /\ params = << >>
    /\ calls = [w \in Workers |-> 0]
    /\ ctor_log = [w \in Workers |-> << >>]
    /\ fit_log = [w \in Workers |-> << >>]
    /\ backend_exc = [w \in Workers |-> "None"]
    /\ outcome = [w \in Workers |-> NoOutcome]

\* nothing saved, loaded, transformed or translated yet
OtherQuiet ==
    /\ saved = << >>
    /\ loaded = << >>
    /\ trips = 0
    /\ transform_func = << >>
    /\ constructed = << >>
    /\ predicted = << >>
    /\ translated = << >>

\* before any model entity exists
CpuQuiet ==
    /\ model = << >>
    /\ heap = << >>
    /\ cache = [e \in Entities |-> 0]
    /\ uid_count = 0
    /\ builds = [e \in Entities |-> 0]
    /\ ops = 0
    /\ pc = [c \in Callers |-> "idle"]
    /\ local = [c \in Callers |-> 0]
    /\ returned = [c \in Callers |-> NoReturn]

\* two freshly constructed (or loaded) model entities
CpuInit ==
    /\ \E n \in Dimensions, icpt \in {0, 36}, sp \in SparkParamChoices :
         model = [e \in Entities |->
                    IF e = "lr"
                    THEN LinearRegressionModel([i \in 1..n |-> 6 - 2 * i], icpt, n,
                                               "float32", sp)
                    ELSE RandomForestRegressionModel(n, "float32", "treelite",
                                                     << "tree1", "tree2" >>, sp)]
    /\ heap = << >>
    /\ cache = [e \in Entities |-> 0]
    /\ uid_count = 0
    /\ builds = [e \in Entities |-> 0]
    /\ ops = 0
    /\ pc = [c \in Callers |-> "idle"]
    /\ local = [c \in Callers |-> 0]
    /\ returned = [c \in Callers |-> NoReturn]

\* ---------------------------------------- model entities: whole calls
\* the body of cpu() on entity e, run without interruption
cpuBody(e) ==
    IF CacheIsNone(cache[e])
    THEN /\ heap' = Append(heap, _copyValues(model[e],
                        NewCpuModel(e, java_uid(uid_count), model[e])))
         /\ cache' = [cache EXCEPT ![e] = Len(heap) + 1]
         /\ uid_count' = uid_count + 1
         /\ builds' = [builds EXCEPT ![e] = @ + 1]
    ELSE UNCHANGED << heap, cache, uid_count, builds >>

cpu(e) ==
    /\ ops < MaxOps
    /\ ops' = ops + 1
    /\ cpuBody(e)
    /\ returned' = [returned EXCEPT ![1] =
          << [call |-> "cpu", entity |-> e, id |-> cache'[e],
              obj |-> heap'[cache'[e]]] >>]
    /\ UNCHANGED << model, pc, local, fitVars, otherVars >>

predict ==
    /\ ops < MaxOps
    /\ ops' = ops + 1
    /\ cpuBody("lr")
    /\ \E value \in Values(model["lr"].n_cols) :
         returned' = [returned EXCEPT ![1] =
           << [call |-> "predict", entity |-> "lr", id |-> cache'["lr"],
               arg |-> value,
               result |-> SparkPredict(heap'[cache'["lr"]], value)] >>]
    /\ UNCHANGED << model, pc, local, fitVars, otherVars >>

evaluate ==
    /\ ops < MaxOps
    /\ ops' = ops + 1
    /\ cpuBody("lr")
    /\ \E dataset \in Datasets(model["lr"].n_cols) :
         returned' = [returned EXCEPT ![1] =
           << [call |-> "evaluate", entity |-> "lr", id |-> cache'["lr"],
               arg |-> dataset,
               result |-> SparkEvaluate(heap'[cache'["lr"]], dataset)] >>]
    /\ UNCHANGED << model, pc, local, fitVars, otherVars >>

\* ------------------------- LinearRegressionModel.cpu(), statement by
\* statement, for callers that run concurrently on the same entity
cpuCheck(c) ==
    /\ pc[c] = "idle"
    /\ ops < MaxOps
    /\ ops' = ops + 1
    /\ pc' = [pc EXCEPT ![c] =
                IF CacheIsNone(cache["lr"]) THEN "construct" ELSE "return"]
    /\ UNCHANGED << model, heap, cache, uid_count, builds, local, returned,
                    fitVars, otherVars >>

\* java_uid, the JVM constructor and SparkLinearRegressionModel(java_model)
cpuConstruct(c) ==
    /\ pc[c] = "construct"
    /\ heap' = Append(heap, NewCpuModel("lr", java_uid(uid_count), model["lr"]))
    /\ uid_count' = uid_count + 1
    /\ builds' = [builds EXCEPT !["lr"] = @ + 1]
    /\ local' = [local EXCEPT ![c] = Len(heap) + 1]
    /\ pc' = [pc EXCEPT ![c] = "store"]
    /\ UNCHANGED << model, cache, ops, returned, fitVars, otherVars >>

\* self._lr_ml_model = ...
cpuStore(c) ==
    /\ pc[c] = "store"
    /\ cache' = [cache EXCEPT !["lr"] = local[c]]
    /\ pc' = [pc EXCEPT ![c] = "copyValues"]
    /\ UNCHANGED << model, heap, uid_count, builds, ops, local, returned,
                    fitVars, otherVars >>

\* self._copyValues(self._lr_ml_model)
cpuCopyValues(c) ==
    /\ pc[c] = "copyValues"
    /\ heap' = [heap EXCEPT ![cache["lr"]] = _copyValues(model["lr"], @)]
    /\ pc' = [pc EXCEPT ![c] = "return"]
    /\ UNCHANGED << model, cache, uid_count, builds, ops, local, returned,
                    fitVars, otherVars >>

\* return self._lr_ml_model
cpuReturn(c) ==
    /\ pc[c] = "return"
    /\ returned' = [returned EXCEPT ![c] =
          << [call |-> "cpu", entity |-> "lr", id |-> cache["lr"],
              obj |-> heap[cache["lr"]]] >>]
    /\ pc' = [pc EXCEPT ![c] = "idle"]
    /\ local' = [local EXCEPT ![c] = 0]
    /\ UNCHANGED << model, heap, cache, uid_count, builds, ops, fitVars, otherVars >>

\* --------------------------------------------- numbers and datatypes
\* Coefficients and intercepts are integers in units of the float64 spacing;
\* the float32 values are the multiples of F32Step.
F32Step == 2

\* numpy's astype(dtype) on one value: round to the nearest value of dtype
AsType(x, dtype) ==
    IF dtype = "float32" THEN ((x + F32Step \div 2) \div F32Step) * F32Step
    ELSE x

Dtypes == {"float32", "float64"}
\* values a backend of the given dtype can have learned
LearnedValues(dtype) ==
    IF dtype = "float32" THEN {0, F32Step, 2 * F32Step} ELSE {0, 3, 2 * F32Step}

\* the rows a fit can have produced: coefficients and intercept are values
\* of the backend's dtype
FitResultRows ==
    UNION { { [ coef_ |-> c, intercept_ |-> i, n_cols |-> n, dtype |-> d ] :
                c \in [1..n -> LearnedValues(d)], i \in LearnedValues(d) } :
            n \in Dimensions, d \in Dtypes }

\* LinearRegressionModel.from_row(result)
from_row(row, sp) ==
    LinearRegressionModel(row.coef_, row.intercept_, row.n_cols, row.dtype, sp)

\* ----------------------------------------------------- save and load
\* JSON text of a value: a number is written as its shortest decimal that
\* reads back as the same double, a list element by element
JsonNumber(x) == << "number", x >>
JsonString(x) == << "string", x >>
JsonArray(xs) == << "array", [i \in 1..Len(xs) |-> JsonNumber(xs[i])] >>

ParseNumber(j) == j[2]
ParseString(j) == j[2]
ParseArray(j) == [i \in 1..Len(j[2]) |-> ParseNumber(j[2][i])]

\* model.save(path): the construction arguments and the Spark params
SaveModel(m) ==
    [ attributes |->
        [ coef_ |-> JsonArray(m.model_attributes.coef_),
          intercept_ |-> JsonNumber(m.model_attributes.intercept_),
          n_cols |-> JsonNumber(m.model_attributes.n_cols),
          dtype |-> JsonString(m.model_attributes.dtype) ],
      metadata |-> m.spark_params ]

\* LinearRegressionModel.load(path): the class is constructed again from
\* the saved construction arguments
LoadModel(file) ==
    LinearRegressionModel(ParseArray(file.attributes.coef_),
                          ParseNumber(file.attributes.intercept_),
                          ParseNumber(file.attributes.n_cols),
                          ParseString(file.attributes.dtype),
                          file.metadata)

\* a LinearRegressionModel made from the row of a fit; nothing else yet
ModelInit ==
    /\ \E row \in FitResultRows, sp \in SparkParamChoices :
         model = [e \in {"lr"} |-> from_row(row, sp)]
    /\ heap = << >>
    /\ cache = [e \in Entities |-> 0]
    /\ uid_count = 0
    /\ builds = [e \in Entities |-> 0]
    /\ ops = 0
    /\ pc = [c \in Callers |-> "idle"]
    /\ local = [c \in Callers |-> 0]
    /\ returned = [c \in Callers |-> NoReturn]

\* model.save(model_path)
save ==
    /\ saved' = << SaveModel(model["lr"]) >>
    /\ UNCHANGED << loaded, trips, transform_func, constructed, predicted,
                    translated, fitVars, cpuVars >>

\* model2 = LinearRegressionModel.load(model_path)
load ==
    /\ saved # << >>
    /\ trips < MaxTrips
    /\ loaded' = << LoadModel(saved[1]) >>
    /\ trips' = trips + 1
    /\ UNCHANGED << saved, transform_func, constructed, predicted,
                    translated, fitVars, cpuVars >>

\* model2.save(model_path), overwriting
save_loaded ==
    /\ loaded # << >>
    /\ saved' = << SaveModel(loaded[1]) >>
    /\ UNCHANGED << loaded, trips, transform_func, constructed, predicted,
                    translated, fitVars, cpuVars >>

\* ------------------------------------------------------- transform
\* LinearRegressionMG(output_type="numpy"): a backend object nothing was
\* fitted on
NewLinearRegressionMG ==
    [ cls |-> "LinearRegressionMG", output_type |-> "numpy", fit_calls |-> 0 ]

\* _construct_lr() of the closure tf: the attributes are set from the
\* captured values, the coefficients cast to dtype
_construct_lrInterceptUnset(tf) ==
    NewLinearRegressionMG @@
    [ coef_ |-> [i \in 1..Len(tf.coef_) |-> AsType(tf.coef_[i], tf.dtype)],
      intercept_ |-> 0,
      n_cols |-> tf.n_cols,
      dtype |-> tf.dtype ]
_construct_lr(tf) ==
    NewLinearRegressionMG @@
    [ coef_ |-> [i \in 1..Len(tf.coef_) |-> AsType(tf.coef_[i], tf.dtype)],
      intercept_ |-> tf.intercept_,
      n_cols |-> tf.n_cols,
      dtype |-> tf.dtype ]

\* _predict(lr, pdf): pd.Series(lr.predict(pdf)), one value per row in order
_predict(lr, pdf) ==
    [i \in 1..Len(pdf) |-> Dot(lr.coef_, pdf[i]) + lr.intercept_]

\* batches of one or two feature rows with n entries each
Batches(n) == {<< v >> : v \in Values(n)} \cup {<< v, v >> : v \in Values(n)}

\* _get_cuml_transform_func(dataset): the values are read from the model
\* once and captured; the third element of the returned tuple is None
get_cuml_transform_func ==
    /\ transform_func' =
         << [ coef_ |-> model["lr"].coef_,
              intercept_ |-> model["lr"].intercept_,
              n_cols |-> model["lr"].n_cols,
              dtype |-> model["lr"].dtype,
              evaluate |-> "None" ] >>
    /\ UNCHANGED << saved, loaded, trips, constructed, predicted, translated,
                    fitVars, cpuVars >>

\* a worker calls the constructor function
construct ==
    /\ transform_func # << >>
    /\ Len(constructed) < MaxConstructs
    /\ constructed' = Append(constructed, _construct_lr(transform_func[1]))
    /\ UNCHANGED << saved, loaded, trips, transform_func, predicted,
                    translated, fitVars, cpuVars >>

\* a worker calls the prediction function on a constructed object
transform_batch ==
    /\ \E i \in 1..Len(constructed) :
         \E pdf \in Batches(constructed[i].n_cols) :
           predicted' = << _predict(constructed[i], pdf) >>
    /\ UNCHANGED << saved, loaded, trips, transform_func, constructed,
                    translated, fitVars, cpuVars >>

\* ------------------------------------------- value translation calls
\* _param_value_mapping()["loss"](value)
translate_loss ==
    /\ Len(translated) < MaxTranslations
    /\ \E value \in LossInputs :
         translated' = Append(translated,
            [param |-> "loss", input |-> value,
             output |-> loss_value_mapping(value)])
    /\ UNCHANGED << saved, loaded, trips, transform_func, constructed,
                    predicted, fitVars, cpuVars >>

\* _param_value_mapping()["solver"](value)
translate_solver ==
    /\ Len(translated) < MaxTranslations
    /\ \E value \in SolverInputs :
         translated' = Append(translated,
            [param |-> "solver", input |-> value,
             output |-> solver_value_mapping(value)])
    /\ UNCHANGED << saved, loaded, trips, transform_func, constructed,
                    predicted, fitVars, cpuVars >>

\* ------------------------------------------------------ specifications
Init == FitInit /\ CpuQuiet /\ OtherQuiet

Next ==
    \/ setRegParam
    \/ setElasticNetParam
    \/ setLoss
    \/ fit
    \/ \E w \in Workers : _linear_regression_fit(w)

Spec == Init /\ [][Next]_vars

\* calls on the model entities, one after the other
InitSeq == FitQuiet /\ CpuInit /\ OtherQuiet

NextSeq ==
    \/ \E e \in Entities : cpu(e)
    \/ predict
    \/ evaluate

SpecSeq == InitSeq /\ [][NextSeq]_vars

\* callers of LinearRegressionModel.cpu() running concurrently
NextConc ==
    \/ \E c \in Callers : cpuCheck(c)
    \/ \E c \in Callers : cpuConstruct(c)
    \/ \E c \in Callers : cpuStore(c)
    \/ \E c \in Callers : cpuCopyValues(c)
    \/ \E c \in Callers : cpuReturn(c)

SpecConc == InitSeq /\ [][NextConc]_vars

\* ---------------------------------------------------------------- claims
\* every backend constructor call logged so far, as (worker, index) pairs
CtorCalls == {<< w, i >> \in Workers \X (1..MaxCalls + 1) : i <= Len(ctor_log[w])}
CtorCall(c) == ctor_log[c[1]][c[2]]

\* the total row count of the training data, counted partition by partition
RECURSIVE RowsUpTo(_)
RowsUpTo(w) == IF w = 0 THEN 0 ELSE part_rows + w + RowsUpTo(w - 1)
total_row_count == RowsUpTo(NumWorkers)

\* the accepted subsets as section 4.2 of the specification lists them
AcceptedOLS == {"algorithm", "fit_intercept", "normalize", "verbose"}
AcceptedRidge == {"alpha", "solver", "fit_intercept", "normalize", "verbose"}
AcceptedCD == {"loss", "alpha", "l1_ratio", "fit_intercept", "max_iter",
               "normalize", "tol", "shuffle", "verbose"}
AcceptedSubset(cls) ==
    CASE cls = "LinearRegressionMG" -> AcceptedOLS
      [] cls = "RidgeMG" -> AcceptedRidge
      [] cls = "CDMG" -> AcceptedCD

\* C1: with alpha = 0, whatever l1_ratio is, every backend the fit function
\* instantiates is the ordinary-least-squares one and its keywords lie in
\* {algorithm, fit_intercept, normalize, verbose}; none of alpha, l1_ratio,
\* max_iter, tol, shuffle, loss is passed.
C1_OLSWhenAlphaZero ==
    cuml_params["alpha"] = 0 =>
        \A c \in CtorCalls :
            /\ CtorCall(c).cls = "LinearRegressionMG"
            /\ DOMAIN CtorCall(c).kwargs \subseteq AcceptedOLS
            /\ DOMAIN CtorCall(c).kwargs \cap
                 {"alpha", "l1_ratio", "max_iter", "tol", "shuffle", "loss"} = {}

C1_Witness ==
    /\ cuml_params["alpha"] = 0
    /\ cuml_params["l1_ratio"] = 0
    /\ \E c \in CtorCalls : CtorCall(c).cls = "LinearRegressionMG"

\* C2: with alpha # 0 and l1_ratio = 0 every backend instantiated is the ridge
\* one and its alpha is regParam times the total row count, in the first
\* call and in a second call on the same params mapping alike.
C2_RidgeAlphaScaledOnce ==
    (cuml_params["alpha"] # 0 /\ cuml_params["l1_ratio"] = 0) =>
        \A c \in CtorCalls :
            /\ CtorCall(c).cls = "RidgeMG"
            /\ CtorCall(c).kwargs["alpha"] = cuml_params["alpha"] * total_row_count

C2_Witness ==
    \E w \in Workers :
        /\ Len(ctor_log[w]) = 2
        /\ ctor_log[w][2].cls = "RidgeMG"
        /\ cuml_params["alpha"] = 2
        /\ ctor_log[w][2].kwargs["alpha"] = 2 * total_row_count

\* C3: with alpha # 0 and l1_ratio # 0 every backend instantiated is the
\* coordinate-descent one and the alpha it is given is regParam itself,
\* whatever the row counts are.
C3_CDAlphaUnmodified ==
    (cuml_params["alpha"] # 0 /\ cuml_params["l1_ratio"] # 0) =>
        \A c \in CtorCalls :
            /\ CtorCall(c).cls = "CDMG"
            /\ CtorCall(c).kwargs["alpha"] = cuml_params["alpha"]

C3_Witness ==
    /\ cuml_params["alpha"] = 2
    /\ part_rows = MaxPartRows
    /\ \E c \in CtorCalls :
         CtorCall(c).cls = "CDMG" /\ CtorCall(c).kwargs["alpha"] = 2

\* C4: every keyword given to a backend constructor is in that backend's
\* accepted subset, also when the mapping carries keys no backend knows, and
\* the fit function raises only what the native backend raised.
C4_OnlyAcceptedKeys ==
    /\ \A c \in CtorCalls :
         DOMAIN CtorCall(c).kwargs \subseteq AcceptedSubset(CtorCall(c).cls)
    /\ \A w \in Workers :
         outcome[w].status = "raised" => backend_exc[w] \in BackendExceptions

C4_Witness ==
    /\ "bogus" \in DOMAIN cuml_params
    /\ \E w \in Workers :
         /\ outcome[w].status = "returned"
         /\ Len(ctor_log[w]) = 1
         /\ "bogus" \notin DOMAIN ctor_log[w][1].kwargs

\* C5: once fit has been called on data with one feature column while alpha
\* or l1_ratio is zero, it has failed with RuntimeError and no params were
\* shipped, no fit function ran and no backend was instantiated.
C5_SingleColumnRejected ==
    ( /\ phase # "created"
      /\ dimension = 1
      /\ (cuml_params["alpha"] = 0 \/ cuml_params["l1_ratio"] = 0) ) =>
        /\ phase = "failed"
        /\ error = "RuntimeError"
        /\ params = << >>
        /\ \A w \in Workers :
             calls[w] = 0 /\ ctor_log[w] = << >> /\ fit_log[w] = << >>

C5_Witness ==
    /\ phase = "failed"
    /\ error = "RuntimeError"
    /\ dimension = 1
    /\ cuml_params["alpha"] # 0
    /\ cuml_params["l1_ratio"] = 0

\* C6: no backend is ever given a loss keyword that is None or a value other
\* than the supported "squared_loss": an unsupported loss is not passed.
C6_UnsupportedLossNotPassed ==
    \A c \in CtorCalls :
        "loss" \in DOMAIN CtorCall(c).kwargs =>
            CtorCall(c).kwargs["loss"] = "squared_loss"

\* C7: while the workers run, the params mapping of every worker, the
\* hyperparameter mapping in it included, is what the driver handed out.
C7_ParamsUnchanged ==
    phase = "running" =>
        \A w \in Workers :
            params[w] = WorkerParams(w, cuml_params, dimension, part_rows)

C7_Witness ==
    \E w1 \in Workers, w2 \in Workers :
        /\ Len(ctor_log[w1]) = 2
        /\ ctor_log[w1][1].cls = "RidgeMG"
        /\ "bogus" \in DOMAIN params[w2].cuml_init
        /\ params[w1].cuml_init["alpha"] = cuml_params["alpha"]

\* C8: when the backend raised in a call, the call ended by raising that very
\* exception and returned no record; every call constructs the backend once
\* and calls its fit at most once.
C8_BackendExceptionPropagates ==
    \A w \in Workers :
        /\ backend_exc[w] # "None" =>
             /\ outcome[w].status = "raised"
             /\ outcome[w].exc = backend_exc[w]
             /\ outcome[w].result = << >>
        /\ Len(ctor_log[w]) = calls[w]
        /\ Len(fit_log[w]) <= calls[w]

C8_Witness ==
    \E w \in Workers :
        /\ calls[w] = 1
        /\ Len(fit_log[w]) = 1
        /\ backend_exc[w] \in FitExceptions
        /\ outcome[w].status = "raised"

\* C9: in any sequence of cpu(), predict() and evaluate() calls the CPU model
\* of an entity is constructed at most once, a filled cache never changes,
\* and every call works on the cached object.
C9_CpuModelBuiltOnce ==
    [][ /\ \A e \in Entities :
             /\ builds'[e] <= 1
             /\ cache[e] # 0 => (cache'[e] = cache[e] /\ builds'[e] = builds[e])
        /\ returned'[1] # NoReturn =>
             /\ returned'[1][1].id = cache'[returned'[1][1].entity]
             /\ returned'[1][1].id # 0 ]_vars

C9_Witness ==
    /\ ops = MaxOps
    /\ builds["lr"] = 1
    /\ builds["rf"] = 0
    /\ returned[1] # NoReturn
    /\ returned[1][1].call = "evaluate"

\* the CPU model one uninterrupted cpu() call on a fresh entity builds
SequentialCpuModel ==
    [ cls |-> "SparkLinearRegressionModel",
      uid |-> 1,
      coefficients |-> model["lr"].coef_,
      intercept |-> model["lr"].intercept_,
      scale |-> 1,
      params |-> model["lr"].spark_params ]

\* C10: with concurrent callers of cpu() every caller receives a CPU model
\* equal to the one a single call builds, and once all calls are over every
\* CPU model that was built equals the cached one.
C10_RaceIsSafe ==
    /\ \A c \in Callers :
         returned[c] # NoReturn => returned[c][1].obj = SequentialCpuModel
    /\ (\A c \in Callers : pc[c] = "idle") =>
         \A i \in 1..Len(heap) : heap[i] = heap[cache["lr"]]

\* intercept + coef[1] * x[1] + ... + coef[n] * x[n]
RECURSIVE LinearValue(_, _, _, _)
LinearValue(coef, intercept, x, n) ==
    IF n = 0 THEN intercept
    ELSE coef[n] * x[n] + LinearValue(coef, intercept, x, n - 1)

\* C11: predict(value) and evaluate(dataset) on a LinearRegressionModel end
\* with a result: they work on the cached CPU model, which carries the
\* model's coefficients and intercept and the scale 1.0, and return what that
\* CPU model computes for the same argument.
C11_PredictEvaluateThroughCpu ==
    (returned[1] # NoReturn /\ returned[1][1].call \in {"predict", "evaluate"}) =>
        LET r == returned[1][1]
            m == model["lr"]
        IN  /\ r.id # 0
            /\ r.id = cache["lr"]
            /\ heap[r.id].coefficients = m.coef_
            /\ heap[r.id].intercept = m.intercept_
            /\ heap[r.id].scale = 1
            /\ r.call = "predict" =>
                 r.result = LinearValue(m.coef_, m.intercept_, r.arg, Len(m.coef_))
            /\ r.call = "evaluate" =>
                 r.result.predictions =
                    [i \in 1..Len(r.arg) |->
                       LinearValue(m.coef_, m.intercept_, r.arg[i], Len(m.coef_))]

C11_Witness ==
    /\ ops = 1
    /\ builds["lr"] = 1
    /\ returned[1] # NoReturn
    /\ returned[1][1].call = "predict"
    /\ model["lr"].intercept_ # 0
    /\ returned[1][1].result # model["lr"].intercept_

\* a LinearRegressionModel that is saved, loaded and transformed with
InitModel == FitQuiet /\ ModelInit /\ OtherQuiet

NextModel ==
    \/ save
    \/ load
    \/ save_loaded
    \/ get_cuml_transform_func
    \/ construct
    \/ transform_batch

SpecModel == InitModel /\ [][NextModel]_vars

C13_TransformNeverTrains ==
    /\ \A i \in 1..Len(constructed) :
         /\ constructed[i].coef_ = model["lr"].coef_
         /\ constructed[i].intercept_ = model["lr"].intercept_
         /\ constructed[i].n_cols = model["lr"].n_cols
         /\ constructed[i].dtype = model["lr"].dtype
         /\ constructed[i].fit_calls = 0
    /\ transform_func # << >> => transform_func[1].evaluate = "None"
    /\ \A w \in Workers : ctor_log[w] = << >> /\ fit_log[w] = << >>

C13_Witness ==
    /\ Len(constructed) = MaxConstructs
    /\ predicted # << >>
    /\ model["lr"].dtype = "float32"
    /\ model["lr"].intercept_ # 0
    /\ \E i \in 1..model["lr"].n_cols : model["lr"].coef_[i] # 0

\* applications of the value-translation functions to strings
InitMap == FitQuiet /\ CpuQuiet /\ OtherQuiet

NextMap ==
    \/ translate_loss
    \/ translate_solver

SpecMap == InitMap /\ [][NextMap]_vars

\* C14: every application of a value-translation function to a string ends
\* with a result: solver 'auto', 'normal', 'eig' give 'eig', loss
\* 'squaredError' and 'squared_loss' give 'squared_loss', any other string
\* gives None; the same input gives the same result every time.
C14_ValueTranslation ==
    /\ \A i \in 1..Len(translated) :
         LET t == translated[i]
         IN  /\ t.param = "solver" =>
                  t.output = IF t.input \in {"auto", "normal", "eig"}
                             THEN "eig" ELSE "None"
             /\ t.param = "loss" =>
                  t.output = IF t.input \in {"squaredError", "squared_loss"}
                             THEN "squared_loss" ELSE "None"
    /\ \A i, j \in 1..Len(translated) :
         (translated[i].param = translated[j].param
            /\ translated[i].input = translated[j].input)
         => translated[i].output = translated[j].output

C14_Witness ==
    /\ Len(translated) = 2
    /\ translated[1] = [param |-> "solver", input |-> "normal", output |-> "eig"]
    /\ translated[2] = [param |-> "loss", input |-> "huber", output |-> "None"]

\* C15: in one distributed fit all workers instantiate the same backend class
\* with the same keywords, whatever the order in which they run; in the
\* ridge case that is alpha scaled by the total row count, which differs
\* from every worker's own row count.
C15_WorkersAgree ==
    /\ \A c1 \in CtorCalls, c2 \in CtorCalls :
         /\ CtorCall(c1).cls = CtorCall(c2).cls
         /\ CtorCall(c1).kwargs = CtorCall(c2).kwargs
    /\ \A w \in Workers :
         \A i \in 1..Len(fit_log[w]) : fit_log[w][i].m = total_row_count

C15_Witness ==
    /\ \A w \in Workers : Len(ctor_log[w]) = 1
    /\ ctor_log[1][1].cls = "RidgeMG"
    /\ ctor_log[2][1].kwargs["alpha"] = cuml_params["alpha"] * total_row_count
    /\ fit_log[1] # << >>
    /\ fit_log[1][1].rank # 1

\* C16: the hyperparameters the single-column pre-check rejects are those
\* the selector routes to the OLS or the ridge backend, so for data with one
\* feature column the only backend ever instantiated is coordinate descent.
C16_PreCheckMatchesSelector ==
    /\ PreProcessRaises(1, cuml_params)
         <=> SelectBackend(cuml_params) \in {"LinearRegressionMG", "RidgeMG"}
    /\ dimension = 1 => \A c \in CtorCalls : CtorCall(c).cls = "CDMG"

C16_Witness ==
    /\ dimension = 1
    /\ phase = "running"
    /\ \E c \in CtorCalls : CtorCall(c).cls = "CDMG"

====
